---- MODULE Spec2Model ----
(***************************************************************************)
(* A model of build/azure-pipelines/common/publish.js (the CI publish      *)
(* script) and of sql/base/browser/ui/table/tableCellEditorFactory.ts      *)
(* (the grid cell editors).                                                *)
(*                                                                         *)
(* publish.js: every awaited call of publish() is one atomic step of a     *)
(* run; the blob container and the release collection are shared by the    *)
(* runs.  A call to an external service either takes effect and succeeds,  *)
(* or fails without effect with an error of one of three kinds:            *)
(*   "reset"    err.message contains ECONNRESET,                           *)
(*   "conflict" err.code is 409,                                           *)
(*   "other"    anything else.                                             *)
(***************************************************************************)
EXTENDS Integers, Sequences, FiniteSets, TLC

VARIABLES
    container,   \* does the blob container of the quality exist
    blobs,       \* names of the blobs stored in that container
    collection,  \* the release documents of the collection dbs/builds/colls/<quality>
    args,        \* per run: the command line and BUILD_SOURCEVERSION
    st,          \* per run: position in publish(), locals, and what happened so far
    faults,      \* how many service faults the environment may still inject
    ed           \* the cell editor of the grid (one editing session)

vars == <<container, blobs, collection, args, st, faults, ed>>

\* ------------------------------------------------------------- constants

RETRY_TIMES == 10
UPDATE_TRIES == 5

\* Bounds of the model.
MaxInitAssets == 2
PairFaults == 1
MaxOptions == 2

Runs == {1, 2}
Quality == "insider"
Commits == {"", "c1"}
Platforms == {"win32", "linux"}
Types == {"setup", "archive"}
Names == {"a.zip", "b.zip"}
OldName == "old.zip"
IsUpdateArgs == {"true", "false"}
ErrKinds == {"reset", "conflict", "other"}

\* commit + '/' + name
BlobName(commit, name) == <<commit, name>>

\* ------------------------------------------------------ documents, assets

Asset(platform, type, commit, name) ==
    [platform |-> platform,
     type |-> type,
     url |-> <<"cdn", Quality, BlobName(commit, name)>>,
     hash |-> <<"sha1", name>>,
     sha256hash |-> <<"sha256", name>>,
     supportsFastUpdate |-> (platform = "win32")]

AssetOf(a) == Asset(a.platform, a.type, a.commit, a.name)

IsUpdate(a) == a.isUpdate = "true"

\* release.updates[platform] = type, on a map kept as a set of <<platform, type>>
SetUpdate(updates, platform, type) ==
    {u \in updates : u[1] # platform} \cup {<<platform, type>>}

InitialReleaseIgnoringUploadOnly(a) ==
    [id |-> a.commit,
     assets |-> <<AssetOf(a)>>,
     updates |-> IF IsUpdate(a) THEN SetUpdate({}, a.platform, a.type) ELSE {}]

\* The document publish() builds and hands to createDocument.
InitialRelease(a) ==
    [id |-> a.commit,
     assets |-> IF a.uploadOnly THEN << >> ELSE <<AssetOf(a)>>,
     updates |-> IF ~a.uploadOnly /\ IsUpdate(a)
                 THEN SetUpdate({}, a.platform, a.type) ELSE {}]

UpdateReleaseNoFilter(release, platform, type, asset, isUpdate) ==
    [release EXCEPT
        !.assets = Append(@, asset),
        !.updates = IF isUpdate THEN SetUpdate(@, platform, type) ELSE @]

\* What update() makes of the queried document before it replaces it.
UpdateRelease(release, platform, type, asset, isUpdate) ==
    [release EXCEPT
        !.assets = Append(SelectSeq(@, LAMBDA x :
                              ~(x.platform = platform /\ x.type = type)), asset),
        !.updates = IF isUpdate THEN SetUpdate(@, platform, type) ELSE @]

StoreBlobNowhere(stored, blobName) == stored

\* createBlockBlobFromLocalFile
StoreBlob(stored, blobName) == stored \cup {blobName}

\* ------------------------------------------------------------- run state

NoErr == [step |-> "none", kind |-> "none"]

Off == [pc |-> "off", run |-> 0, updateTries |-> 0, fnCalls |-> 0,
        blobExists |-> FALSE, config |-> "none", read |-> {}, upd |-> {},
        err |-> "none", exitCode |-> 0,
        attempted |-> {}, completed |-> {}, lastErr |-> NoErr]

Start == [Off EXCEPT !.pc = "main"]

Attempt(s, step) == [s EXCEPT !.attempted = @ \cup {step}]
Complete(s, step) == [s EXCEPT !.completed = @ \cup {step}]
Raise(s, step, kind) == [s EXCEPT !.lastErr = [step |-> step, kind |-> kind]]

\* publish(...).catch(err => { console.error(err); process.exit(1); })
MainCatch(s, kind) ==
    [s EXCEPT !.pc = "exited", !.err = kind, !.exitCode = 1, !.upd = {}]

\* publish() returned: the process ends with exit code 0
Return(s) == [s EXCEPT !.pc = "done", !.upd = {}]

NextStepUploadFirst(step) ==
    CASE step = "main" -> "stat"
      [] step = "stat" -> "hash"
      [] step = "hash" -> "container"
      [] step = "container" -> "upload"
      [] step = "upload" -> "exists"
      [] step = "exists" -> "config"
      [] step = "config" -> "create"

\* The order of the awaited calls of publish()
NextStep(step) ==
    CASE step = "main" -> "stat"
      [] step = "stat" -> "hash"
      [] step = "hash" -> "container"
      [] step = "container" -> "exists"
      [] step = "exists" -> "upload"
      [] step = "upload" -> "config"
      [] step = "config" -> "create"

AfterExistsAlwaysUpload(s) == [s EXCEPT !.pc = NextStep("exists")]

\* if (blobExists) { ...; return; }
AfterExists(s) == IF s.blobExists THEN Return(s) ELSE [s EXCEPT !.pc = NextStep("exists")]

\* entering retry(fn): for (let run = 1; ...
EnterRetry(s, entry) == [s EXCEPT !.pc = entry, !.run = 1, !.fnCalls = 0]

RetryCatchOneMore(s, entry, kind) ==
    IF kind # "reset" THEN MainCatch(s, kind)
    ELSE IF s.run + 1 <= RETRY_TIMES + 1 THEN [s EXCEPT !.run = @ + 1, !.pc = entry, !.upd = {}]
    ELSE MainCatch(s, "too_many")

RetryCatchAnyError(s, entry, kind) ==
    IF s.run + 1 <= RETRY_TIMES THEN [s EXCEPT !.run = @ + 1, !.pc = entry, !.upd = {}]
    ELSE MainCatch(s, "too_many")

\* retry(): fn() of this round rejected with an error of this kind
RetryCatch(s, entry, kind) ==
    IF kind # "reset" THEN MainCatch(s, kind)
    ELSE IF s.run + 1 <= RETRY_TIMES THEN [s EXCEPT !.run = @ + 1, !.pc = entry, !.upd = {}]
    ELSE MainCatch(s, "too_many")

ConflictRetriedOnceMore(s) == s.updateTries <= UPDATE_TRIES

\* err.code === 409 && updateTries < 5
ConflictRetried(s) == s.updateTries < UPDATE_TRIES

\* update(): updateTries++ and the query is issued
EnterUpdate(s) == [s EXCEPT !.updateTries = @ + 1, !.pc = "query", !.upd = {}]

\* ------------------------------------------------------------ environment

CanFault == ~faults.limited \/ faults.left > 0
Spend == IF faults.limited THEN [faults EXCEPT !.left = @ - 1] ELSE faults
Outcomes(errs) == {"ok"} \cup (IF CanFault THEN errs ELSE {})
Charge(out) == faults' = IF out \in ErrKinds THEN Spend ELSE faults
Set(r, s) == st' = [st EXCEPT ![r] = s]

ArgsSet ==
    [commit : Commits, platform : Platforms, type : Types, name : Names,
     isUpdate : IsUpdateArgs, uploadOnly : BOOLEAN]

\* The two file names are interchangeable for a run on its own.
SingleArgs == {a \in ArgsSet : a.name = "a.zip"}

Pair(x) == <<x.platform, x.type>>

RECURSIVE SeqsUpTo(_, _)
SeqsUpTo(S, n) ==
    IF n = 0 THEN {<< >>}
    ELSE LET shorter == SeqsUpTo(S, n - 1)
         IN shorter \cup {Append(q, x) : q \in shorter, x \in S}

OnePerPair(assets) ==
    \A i, j \in 1..Len(assets) : Pair(assets[i]) = Pair(assets[j]) => i = j

\* Assets published by earlier builds of the commit, under another file name.
OldAssets == {Asset(p, t, "c1", OldName) : p \in Platforms, t \in Types}

\* The release collection as earlier runs can have left it.
InitCollections ==
    {{}} \cup
    {{[id |-> "c1", assets |-> q, updates |-> {}]} :
        q \in {x \in SeqsUpTo(OldAssets, MaxInitAssets) : OnePerPair(x)}}

\* The blobs earlier runs stored: those the assets of the stored documents
\* point to, and the blob of the run that created the document.
BlobsOf(coll) ==
    UNION {{d.assets[i].url[3] : i \in 1..Len(d.assets)} : d \in coll}
        \cup {BlobName(d.id, OldName) : d \in coll}

\* ------------------------------------------------------- cell editors
\* tableCellEditorFactory.ts.  The widgets (InputBox, Dropdown, SelectBox) are
\* not part of the sources: a widget is a cell holding the value last set on
\* it, and a widget nothing was set on holds '' or undefined.

Undefined == "<undefined>"
Values == {"", "a", "b"}
Kinds == {"text", "dropdown", "select"}
FreshValues == {"", Undefined}

\* x ?? d
Coalesce(x, d) == IF x = Undefined THEN d ELSE x

\* options.indexOf(value), counted from 1; 0 when absent
IndexOf(options, value) ==
    IF \E i \in 1..Len(options) : options[i] = value
    THEN CHOOSE i \in 1..Len(options) :
            options[i] = value /\ \A k \in 1..(i - 1) : options[k] # value
    ELSE 0

OptionLists == SeqsUpTo(Values, MaxOptions)

EdIdle == [phase |-> "none", kind |-> "none", item |-> "",
           cellOptions |-> [defined |-> TRUE, list |-> << >>],
           defaultOptions |-> << >>, originalValue |-> Undefined,
           widget |-> Undefined, widgetOptions |-> << >>]

\* TextEditor.loadValue
LoadText(e) ==
    LET orig == Coalesce(e.item, "")
    IN [e EXCEPT !.originalValue = orig, !.widget = orig, !.phase = "loaded"]

\* the dropdown TextEditor.loadValue, for Dropdown (isEditable) and SelectBox
LoadDropdown(e) ==
    LET orig == Coalesce(e.item, "")
        options == IF e.cellOptions.defined THEN e.cellOptions.list ELSE e.defaultOptions
        idx == IndexOf(options, orig)
    IN IF idx > 0
       THEN [e EXCEPT !.originalValue = orig, !.widgetOptions = options,
                      !.widget = options[idx], !.phase = "loaded"]
       ELSE [e EXCEPT !.originalValue = orig, !.phase = "loaded"]

\* isValueChanged(): widget.value !== this._originalValue.toString()
IsValueChanged(e) == e.widget # e.originalValue

\* serializeValue(): widget.value
SerializeValue(e) == e.widget

\* new TextEditor(args): init() creates the widget
EdConstruct ==
    /\ ed.phase = "none"
    /\ \E v \in FreshValues : ed' = [ed EXCEPT !.phase = "init", !.widget = v]
    /\ UNCHANGED <<container, blobs, collection, args, st, faults>>

\* the grid loads the cell into the editor
EdLoadValue ==
    /\ ed.phase = "init"
    /\ ed' = IF ed.kind = "text" THEN LoadText(ed) ELSE LoadDropdown(ed)
    /\ UNCHANGED <<container, blobs, collection, args, st, faults>>

\* the user types a value, or picks one of the options offered
EdInput ==
    /\ ed.phase \in {"loaded", "edited"}
    /\ \E v \in Values :
        /\ ed.kind = "select" => v \in {ed.widgetOptions[i] : i \in 1..Len(ed.widgetOptions)}
        /\ ed' = [ed EXCEPT !.widget = v, !.phase = "edited"]
    /\ UNCHANGED <<container, blobs, collection, args, st, faults>>

\* applyValue(item, state) with the state serializeValue() gave and the
\* default valueSetter, item[column.field] = value
EdApplyValue ==
    /\ ed.phase \in {"loaded", "edited"}
    /\ ed' = [ed EXCEPT !.item = SerializeValue(ed), !.phase = "applied"]
    /\ UNCHANGED <<container, blobs, collection, args, st, faults>>

\* destroy()
EdDestroy ==
    /\ ed.phase \in {"loaded", "edited", "applied"}
    /\ ed' = [ed EXCEPT !.phase = "destroyed"]
    /\ UNCHANGED <<container, blobs, collection, args, st, faults>>

\* ---------------------------------------------------------------- actions

\* main(): BUILD_SOURCEVERSION missing -> warn and return
Main(r) ==
    /\ st[r].pc = "main"
    /\ Set(r, IF args[r].commit = "" THEN Return(st[r])
              ELSE [st[r] EXCEPT !.pc = NextStep("main")])
    /\ UNCHANGED <<container, blobs, collection, args, faults, ed>>

\* await new Promise(... fs.stat(file ...))
Stat(r) ==
    /\ st[r].pc = "stat"
    /\ \E out \in Outcomes({"other"}) :
        /\ Set(r, LET s == Attempt(st[r], "stat")
                  IN IF out = "ok"
                     THEN [Complete(s, "stat") EXCEPT !.pc = NextStep("stat")]
                     ELSE MainCatch(Raise(s, "stat", out), out))
        /\ Charge(out)
    /\ UNCHANGED <<container, blobs, collection, args, ed>>

\* await Promise.all([hashStream('sha1', stream), hashStream('sha256', stream)])
HashStreams(r) ==
    /\ st[r].pc = "hash"
    /\ \E out \in Outcomes({"other"}) :
        /\ Set(r, LET s == Attempt(st[r], "hash")
                  IN IF out = "ok"
                     THEN [Complete(s, "hash") EXCEPT !.pc = NextStep("hash")]
                     ELSE MainCatch(Raise(s, "hash", out), out))
        /\ Charge(out)
    /\ UNCHANGED <<container, blobs, collection, args, ed>>

\* await assertContainer(blobService, quality)
AssertContainer(r) ==
    /\ st[r].pc = "container"
    /\ \E out \in Outcomes(ErrKinds) :
        /\ Set(r, LET s == Attempt(st[r], "container")
                  IN IF out = "ok"
                     THEN [Complete(s, "container") EXCEPT !.pc = NextStep("container")]
                     ELSE MainCatch(Raise(s, "container", out), out))
        /\ container' = IF out = "ok" THEN TRUE ELSE container
        /\ Charge(out)
    /\ UNCHANGED <<blobs, collection, args, ed>>

\* const blobExists = await doesAssetExist(...); if (blobExists) return;
DoesAssetExist(r) ==
    /\ st[r].pc = "exists"
    /\ \E out \in Outcomes(ErrKinds) :
        /\ Set(r, LET s == Attempt(st[r], "exists")
                      found == BlobName(args[r].commit, args[r].name) \in blobs
                  IN IF out = "ok"
                     THEN AfterExists([Complete(s, "exists") EXCEPT !.blobExists = found])
                     ELSE MainCatch(Raise(s, "exists", out), out))
        /\ Charge(out)
    /\ UNCHANGED <<container, blobs, collection, args, ed>>

\* await uploadBlob(blobService, quality, blobName, file)
UploadBlob(r) ==
    /\ st[r].pc = "upload"
    /\ \E out \in Outcomes(ErrKinds) :
        /\ Set(r, LET s == Attempt(st[r], "upload")
                  IN IF out = "ok"
                     THEN EnterRetry(Complete(s, "upload"), NextStep("upload"))
                     ELSE MainCatch(Raise(s, "upload", out), out))
        /\ blobs' = IF out = "ok"
                    THEN StoreBlob(blobs, BlobName(args[r].commit, args[r].name))
                    ELSE blobs
        /\ Charge(out)
    /\ UNCHANGED <<container, collection, args, ed>>

\* getConfig(): one round of retry(fn), fn being the config query.  A 409 is
\* not rejected: c(!results || results.length === 0 ? default : results[0]).
GetConfig(r) ==
    /\ st[r].pc = "config"
    /\ \E out \in Outcomes(ErrKinds) :
        /\ Set(r, LET s == [Attempt(st[r], "config") EXCEPT !.fnCalls = @ + 1]
                      results == "resolved"
                  IN CASE out = "ok" ->
                            EnterRetry([Complete(s, "config") EXCEPT !.config = results],
                                       NextStep("config"))
                       [] out = "conflict" ->
                            EnterRetry([Complete(Raise(s, "config", out), "config")
                                            EXCEPT !.config = results],
                                       NextStep("config"))
                       [] OTHER -> RetryCatch(Raise(s, "config", out), "config", out))
        /\ Charge(out)
    /\ UNCHANGED <<container, blobs, collection, args, ed>>

\* createOrUpdate(): one round of retry(fn) starts with createDocument.  The
\* service answers 409 exactly when a document with this id is stored.
CreateDocument(r) ==
    /\ st[r].pc = "create"
    /\ \E out \in Outcomes({"reset", "other"}) :
        LET s == [Attempt(st[r], "create") EXCEPT !.fnCalls = @ + 1]
            release == InitialRelease(args[r])
            taken == \E d \in collection : d.id = release.id
        IN /\ Set(r, CASE out # "ok" -> RetryCatch(Raise(s, "create", out), "create", out)
                       [] out = "ok" /\ taken -> EnterUpdate(Raise(s, "create", "conflict"))
                       [] OTHER -> Return(Complete(s, "create")))
           /\ collection' = IF out = "ok" /\ ~taken
                            THEN collection \cup {release} ELSE collection
           /\ Charge(out)
    /\ UNCHANGED <<container, blobs, args, ed>>

\* update(): queryDocuments and the callback up to the call of replaceDocument
QueryDocuments(r) ==
    /\ st[r].pc = "query"
    /\ \E out \in Outcomes(ErrKinds) :
        LET s == Attempt(st[r], "query")
            a == args[r]
            results == {d \in collection : d.id = a.commit}
        IN /\ Set(r, CASE out # "ok" -> RetryCatch(Raise(s, "query", out), "create", out)
                       [] out = "ok" /\ Cardinality(results) # 1 ->
                            RetryCatch(Raise(s, "query", "other"), "create", "other")
                       [] OTHER ->
                            [Complete(s, "query") EXCEPT
                                !.pc = "replace",
                                !.read = results,
                                !.upd = {UpdateRelease(d, a.platform, a.type, AssetOf(a),
                                                       IsUpdate(a)) : d \in results}])
           /\ Charge(out)
    /\ UNCHANGED <<container, blobs, collection, args, ed>>

\* update(): replaceDocument(release._self, release, err => ...)
ReplaceDocument(r) ==
    /\ st[r].pc = "replace"
    /\ \E out \in Outcomes(ErrKinds) :
        LET s == Attempt(st[r], "replace")
        IN /\ Set(r, CASE out = "ok" -> Return(Complete(s, "replace"))
                       [] out = "conflict" /\ ConflictRetried(s) ->
                            EnterUpdate(Raise(s, "replace", out))
                       [] OTHER -> RetryCatch(Raise(s, "replace", out), "create", out))
           /\ collection' = IF out = "ok"
                            THEN {d \in collection : \A u \in st[r].upd : d.id # u.id}
                                     \cup st[r].upd
                            ELSE collection
           /\ Charge(out)
    /\ UNCHANGED <<container, blobs, args, ed>>

\* --------------------------------------------------------- specifications

\* One run of the script against a store earlier runs have left.
Init ==
    /\ \E a \in SingleArgs, coll \in InitCollections, rerun \in BOOLEAN :
        /\ args = [r \in Runs |-> a]
        /\ collection = coll
        /\ blobs = BlobsOf(coll) \cup (IF rerun THEN {BlobName("c1", a.name)} ELSE {})
    /\ container \in BOOLEAN
    /\ blobs # {} => container
    /\ st = [r \in Runs |-> IF r = 1 THEN Start ELSE Off]
    /\ faults = [limited |-> FALSE, left |-> 0]
    /\ ed = EdIdle

Step(r) ==
    \/ Main(r)
    \/ Stat(r)
    \/ HashStreams(r)
    \/ AssertContainer(r)
    \/ DoesAssetExist(r)
    \/ UploadBlob(r)
    \/ GetConfig(r)
    \/ CreateDocument(r)
    \/ QueryDocuments(r)
    \/ ReplaceDocument(r)

Next == \E r \in Runs : Step(r)

Spec == Init /\ [][Next]_vars

\* Two runs of the script for one commit and quality, started together
\* (two platform jobs of one build), with at most PairFaults service faults.
PairArgs ==
    {f \in [Runs -> {a \in ArgsSet : a.commit = "c1"}] :
        /\ f[1].platform = "win32" /\ f[1].type = "setup" /\ f[1].name = "a.zip"
        /\ f[1].isUpdate = "true" /\ ~f[1].uploadOnly}

InitPair ==
    /\ args \in PairArgs
    /\ collection \in InitCollections
    /\ blobs = BlobsOf(collection)
    /\ container = TRUE
    /\ st = [r \in Runs |-> Start]
    /\ faults = [limited |-> TRUE, left |-> PairFaults]
    /\ ed = EdIdle

SpecPair == InitPair /\ [][Next]_vars

\* One editing session of a grid cell.
InitEditor ==
    /\ \E k \in Kinds, v \in Values \cup {Undefined}, d \in BOOLEAN,
          o \in OptionLists, dflt \in {<< >>, <<"a", "b">>} :
        ed = [EdIdle EXCEPT !.kind = k, !.item = v,
                            !.cellOptions = [defined |-> d, list |-> IF d THEN o ELSE << >>],
                            !.defaultOptions = dflt]
    /\ container = FALSE
    /\ blobs = {}
    /\ collection = {}
    /\ args = [r \in Runs |-> CHOOSE a \in SingleArgs : TRUE]
    /\ st = [r \in Runs |-> Off]
    /\ faults = [limited |-> TRUE, left |-> 0]

NextEditor ==
    \/ EdConstruct
    \/ EdLoadValue
    \/ EdInput
    \/ EdApplyValue
    \/ EdDestroy

SpecEditor == InitEditor /\ [][NextEditor]_vars

\* ----------------------------------------------------------------- claims

Range(q) == {q[i] : i \in 1..Len(q)}
MyBlob(r) == BlobName(args[r].commit, args[r].name)
MyPair(r) == Pair(args[r])
Stored(r) == {d \in collection : d.id = args[r].commit}
OfPair(assets, pair) == {i \in 1..Len(assets) : Pair(assets[i]) = pair}
Updated(r) == st[r].pc = "done" /\ "replace" \in st[r].completed
Stepped(r) == st'[r] # st[r]

\* C1: every stored release document holds at most one asset per (platform,
\* type) pair, and after a successful update for a pair the document holds
\* exactly one asset of that pair, the one just published, and still holds
\* every asset of the other pairs that the queried document held.
C1_OneAssetPerPair ==
    /\ \A d \in collection : OnePerPair(d.assets)
    /\ \A r \in Runs : \A u \in st[r].upd : OnePerPair(u.assets)
    /\ \A r \in Runs : Updated(r) =>
         /\ Stored(r) # {}
         /\ \A d \in Stored(r) :
              /\ Cardinality(OfPair(d.assets, MyPair(r))) = 1
              /\ AssetOf(args[r]) \in Range(d.assets)
              /\ \A q \in st[r].read : \A x \in Range(q.assets) :
                    Pair(x) # MyPair(r) => x \in Range(d.assets)

\* C1 witness: an update replaced an older asset of the run's pair and kept an
\* asset of another pair.
C1_Witness ==
    /\ Updated(1)
    /\ \E q \in st[1].read :
         /\ OfPair(q.assets, MyPair(1)) # {}
         /\ \E x \in Range(q.assets) : Pair(x) # MyPair(1)
    /\ \E d \in Stored(1) : Len(d.assets) = 2

EarlySteps == {"main", "stat", "hash", "container", "exists"}
LateSteps == {"upload", "config", "create", "query", "replace"}

\* C2: while the blob commit/name is already stored, a run that has not yet
\* passed the existence check changes neither the container, the blobs nor
\* the release documents, attempts no upload, config query or document call,
\* and when the existence check answers it returns at once with exit code 0;
\* the run can end in error only by a failure of one of the steps up to the
\* existence check itself.
C2_RerunIsNoOp ==
    [][\A r \in Runs :
        (MyBlob(r) \in blobs /\ st[r].pc \in EarlySteps /\ Stepped(r)) =>
            /\ UNCHANGED <<container, blobs, collection>>
            /\ st'[r].attempted \cap LateSteps = {}
            /\ st'[r].pc \in EarlySteps \cup {"done", "exited"}
            /\ st'[r].pc = "exited" => st'[r].lastErr.step = st[r].pc
            /\ (st[r].pc = "exists" /\ st'[r].pc # "exited") =>
                  /\ st'[r].pc = "done"
                  /\ st'[r].blobExists
                  /\ st'[r].exitCode = 0]_vars

\* C2 witness: a run that found its blob stored and returned.
C2_Witness ==
    /\ st[1].pc = "done"
    /\ st[1].blobExists
    /\ MyBlob(1) \in blobs
    /\ st[1].attempted = {"stat", "hash", "container", "exists"}

RetrySteps == {"config", "create", "query", "replace"}
Rejected(r, kind) ==
    /\ st[r].pc \in RetrySteps
    /\ Stepped(r)
    /\ st'[r].lastErr = [step |-> st[r].pc, kind |-> kind]
    /\ st'[r].pc = "exited" \/ st'[r].run = st[r].run + 1

\* C3: within one call of retry(fn), fn is called at most RETRY_TIMES times;
\* it is called again only after it failed with a connection reset; once a
\* call succeeds retry returns and fn is not called again; and the tenth
\* connection reset in a row ends retry with 'Retried too many times'.
C3_RetryBounded ==
    /\ [](\A r \in Runs :
            /\ st[r].fnCalls <= RETRY_TIMES
            /\ st[r].run <= RETRY_TIMES
            /\ st[r].err = "too_many" =>
                  st[r].fnCalls = RETRY_TIMES /\ st[r].lastErr.kind = "reset")
    /\ [][\A r \in Runs :
            /\ (st[r].fnCalls >= 1 /\ st'[r].fnCalls = st[r].fnCalls + 1) =>
                  st[r].lastErr.kind = "reset"
            /\ (st[r].pc = "config" /\ "config" \in st'[r].completed) =>
                  st'[r].pc = "create" /\ st'[r].fnCalls = 0 /\ st'[r].config # "none"
            /\ (st[r].pc \in RetrySteps /\ st'[r].pc = "done") =>
                  st'[r].fnCalls = st[r].fnCalls + (IF st[r].pc = "create" THEN 1 ELSE 0)
            /\ Rejected(r, "reset") =>
                  IF st'[r].fnCalls = RETRY_TIMES
                  THEN st'[r].pc = "exited" /\ st'[r].err = "too_many"
                  ELSE st'[r].pc \in {"config", "create"} /\ st'[r].err = "none"
            /\ st[r].pc \in {"done", "exited"} => ~Stepped(r)]_vars

\* C3 witness: ten connection resets in a row ended the run.
C3_Witness ==
    /\ st[1].pc = "exited"
    /\ st[1].err = "too_many"
    /\ st[1].fnCalls = RETRY_TIMES

Aborted(r) == st[r].pc = "exited" /\ st[r].exitCode = 1

\* C4 as claimed: once a step has raised an error that is no connection
\* reset, the run is aborted with a non-zero exit code.
C4_AnyOtherErrorAborts ==
    \A r \in Runs : st[r].lastErr.kind \in {"conflict", "other"} => Aborted(r)

ConflictHandled == {"config", "create", "replace"}

\* C4 amended: an error that is neither a connection reset nor a 409 raised
\* by the config query, by createDocument or by replaceDocument aborts the
\* run: the process exits with code 1 and executes no later step.
C4_UnhandledErrorAborts ==
    /\ [](\A r \in Runs :
            (\/ st[r].lastErr.kind = "other"
             \/ st[r].lastErr.kind = "conflict" /\ st[r].lastErr.step \notin ConflictHandled)
            => Aborted(r) /\ st[r].err = st[r].lastErr.kind)
    /\ [][\A r \in Runs : st[r].pc = "exited" => ~Stepped(r)]_vars

\* C4 witness: a 409 from the query of update() aborted the run.
C4_Witness ==
    /\ Aborted(1)
    /\ st[1].lastErr = [step |-> "query", kind |-> "conflict"]
    /\ st[1].attempted = {"stat", "hash", "container", "exists", "upload", "config",
                          "create", "query"}

\* C5 as claimed: one call of createOrUpdate makes at most five update attempts.
C5_AtMostFiveUpdates == \A r \in Runs : st[r].updateTries <= UPDATE_TRIES

\* C5 amended: a 409 from createDocument starts the update path; a 409 from
\* replaceDocument is retried only while fewer than five update attempts have
\* been made in the call and is propagated otherwise; the update attempts of
\* one call are bounded by RETRY_TIMES + UPDATE_TRIES - 1, because a round
\* restarted after a connection reset enters update() again.
C5_ConflictRetryBounded ==
    /\ [](\A r \in Runs : st[r].updateTries <= RETRY_TIMES + UPDATE_TRIES - 1)
    /\ [][\A r \in Runs :
            /\ (st[r].pc = "create" /\ Stepped(r)
                    /\ st'[r].lastErr = [step |-> "create", kind |-> "conflict"]) =>
                  /\ st'[r].pc = "query"
                  /\ st'[r].updateTries = st[r].updateTries + 1
            /\ (st[r].pc = "replace" /\ st'[r].pc = "query") =>
                  /\ st[r].updateTries < UPDATE_TRIES
                  /\ st'[r].updateTries = st[r].updateTries + 1
                  /\ st'[r].lastErr = [step |-> "replace", kind |-> "conflict"]
            /\ (st[r].pc = "replace" /\ st[r].updateTries >= UPDATE_TRIES
                    /\ st'[r].pc # "done"
                    /\ st'[r].lastErr = [step |-> "replace", kind |-> "conflict"]) =>
                  st'[r].pc = "exited" /\ st'[r].err = "conflict"]_vars

\* C5 witness: the fourteenth update attempt of one call.
C5_Witness ==
    /\ st[1].updateTries = RETRY_TIMES + UPDATE_TRIES - 1
    /\ st[1].pc = "replace"

Recorded(r) ==
    \E d \in collection : \E x \in Range(d.assets) : x.url = AssetOf(args[r]).url

\* C6: a run that uploaded its blob and then failed has exit code 1, its blob
\* is still stored and no release document records an asset for it; no step
\* ever removes a blob.
C6_OrphanedBlob ==
    /\ [](\A r \in Runs :
            (st[r].pc = "exited" /\ "upload" \in st[r].completed) =>
                /\ st[r].exitCode = 1
                /\ MyBlob(r) \in blobs
                /\ ~Recorded(r))
    /\ [][blobs \subseteq blobs']_vars

\* C6 witness: the upload succeeded and the document replace failed.
C6_Witness ==
    /\ st[1].pc = "exited"
    /\ "upload" \in st[1].completed
    /\ st[1].lastErr.step = "replace"
    /\ MyBlob(1) \in blobs

Order == <<"stat", "hash", "container", "exists", "upload", "config", "create",
           "query", "replace">>
Before(step) == {Order[i] : i \in 1..((CHOOSE k \in 1..Len(Order) : Order[k] = step) - 1)}

\* C7: a step is attempted only after every step before it in the order stat,
\* hash, ensure container, check blob, upload, config, create, query, replace
\* was completed (create, which answers 409 before an update, only attempted);
\* the upload is attempted only after the check answered 'not exists', and a
\* run writes a release document only after its upload completed.
C7_FixedOrder ==
    /\ [](\A r \in Runs :
            /\ \A s \in st[r].attempted :
                  /\ Before(s) \ {"create", "query"} \subseteq st[r].completed
                  /\ Before(s) \ {"query"} \subseteq st[r].attempted
            /\ "replace" \in st[r].attempted => "query" \in st[r].completed
            /\ "upload" \in st[r].attempted =>
                  "exists" \in st[r].completed /\ ~st[r].blobExists)
    /\ [][\A r \in Runs :
            (Stepped(r) /\ collection' # collection) =>
                "upload" \in st[r].completed /\ MyBlob(r) \in blobs]_vars

\* C7 witness: a run went through every step down to the replace.
C7_Witness ==
    /\ Updated(1)
    /\ st[1].completed = {"stat", "hash", "container", "exists", "upload", "config",
                          "query", "replace"}

\* C9: with --upload-only the document created has no assets and no updates
\* (without it, the asset, and the update entry when is_update is 'true');
\* the document written by the update path always ends with the run's asset
\* and, when is_update is 'true', maps the platform to the type.
C9_UploadOnlyCreatePath ==
    [][\A r \in Runs :
        /\ (st[r].pc = "create" /\ Stepped(r) /\ collection' # collection) =>
              \E d \in collection' \ collection :
                  /\ d.id = args[r].commit
                  /\ d.assets = IF args[r].uploadOnly THEN << >> ELSE <<AssetOf(args[r])>>
                  /\ d.updates = IF ~args[r].uploadOnly /\ args[r].isUpdate = "true"
                                 THEN {MyPair(r)} ELSE {}
        /\ (st[r].pc = "replace" /\ st'[r].pc = "done") =>
              \E d \in collection' :
                  /\ d.id = args[r].commit
                  /\ Len(d.assets) >= 1
                  /\ d.assets[Len(d.assets)] = AssetOf(args[r])
                  /\ args[r].isUpdate = "true" => MyPair(r) \in d.updates
                  /\ args[r].isUpdate # "true" =>
                        \A q \in st[r].read : d.updates = q.updates]_vars

\* C9 witness: an --upload-only run with is_update 'true' went the update path
\* and recorded its asset and its update entry.
C9_Witness ==
    /\ args[1].uploadOnly
    /\ args[1].isUpdate = "true"
    /\ Updated(1)
    /\ \E d \in Stored(1) :
         AssetOf(args[1]) \in Range(d.assets) /\ MyPair(1) \in d.updates

BothPublished(r1, r2) ==
    /\ st[r1].pc = "done" /\ st[r2].pc = "done"
    /\ ~st[r1].blobExists /\ ~st[r2].blobExists
    /\ ~args[r1].uploadOnly /\ ~args[r2].uploadOnly
    /\ MyPair(r1) # MyPair(r2)
    /\ args[r1].name # args[r2].name

\* C8: when two runs for one commit and quality, with different (platform,
\* type) pairs and different blob names, have both published (neither with
\* --upload-only) and finished successfully, the stored release document holds
\* the assets of both.
C8_NoLostAsset ==
    \A r1, r2 \in Runs :
        BothPublished(r1, r2) =>
            \E d \in collection :
                {AssetOf(args[r1]), AssetOf(args[r2])} \subseteq Range(d.assets)

\* C10: right after loadValue, before any input, isValueChanged() is false and
\* serializeValue() is the loaded original value, for every editor kind and
\* every cell value.
C10_LoadedIsUnchanged ==
    ed.phase = "loaded" =>
        ~IsValueChanged(ed) /\ SerializeValue(ed) = ed.originalValue

====
